---- MODULE Spec2Model ----
(***************************************************************************)
(* Script execution session layer of jitsu (package node).                 *)
(*                                                                         *)
(* A Script handle talks to a remote runtime through an exchanger.  Every  *)
(* call of the exchanger blocks the caller until the transport answers, so *)
(* one step of the model is one exchange together with all the code of     *)
(* Script.exchange that runs between that answer and the next exchange (or *)
(* the return to the caller).  The answer of the transport is the input of *)
(* the step.                                                               *)
(***************************************************************************)
EXTENDS Integers, Sequences, FiniteSets, TLC

(***************************************************************************)
(* Bounds of the model.                                                    *)
(***************************************************************************)
\* entries kept in the log of exchanges of one operation; later ones are
\* counted as dropped
MaxSent == 5
\* the model stops answering out-of-memory once the counter is this high
MaxErrCount == 5
\* lines of a raw stack given to the stack translator
MaxStack == 3
\* rows of the frames of a raw stack are 0..MaxRow
MaxRow == 5

(***************************************************************************)
(* Program constants.                                                      *)
(***************************************************************************)
maxScriptErrors == 3

\* the commands of the protocol
describe == "describe"
execute == "execute"
load == "load"
unload == "unload"

\* an argument list: the nil slice (sent as JSON null), or a slice with items
Nil == [isNil |-> TRUE, items |-> <<>>]
List(items) == [isNil |-> FALSE, items |-> items]

VARIABLES
    \* type Script
    errCount, rowOffset, colOffset, numIncludes,
    \* the running call of Script.exchange: where it is and its parameters
    pc, command, payload,
    \* what the last Describe/Execute returned to its caller
    ret,
    \* the exchanges the transport saw during the current operation
    sent, dropped, lastErr,
    \* the operation the caller invoked and the argument list it gave
    op, callArgs,
    \* history: counter at the start of the call, the out-of-memory answers
    \* of the previous call if it succeeded (else -1), whether a call has hit the ceiling since the last reset
    startErr, prevOom, ceilingHit,
    \* the stack translator on its own: input, output
    tIn, tOut, tDone,
    \* storages.AwsRedshift in batch mode: the closed flag, the Redshift
    \* adapter, what Close returned; the goroutine of startBatch: where it is,
    \* the keys it is ranging over; the S3 bucket and the files copied
    closed, adapterClosed, closeRet, bpc, filesKeys, bucket, copied

vars == <<errCount, rowOffset, colOffset, numIncludes, pc, command, payload,
          ret, sent, dropped, lastErr, op, callArgs, startErr, prevOom,
          ceilingHit, tIn, tOut, tDone,
          closed, adapterClosed, closeRet, bpc, filesKeys, bucket, copied>>

scriptVars == <<errCount, pc, command, payload, ret, sent, dropped, lastErr,
                op, callArgs, startErr, prevOom, ceilingHit>>
offsetVars == <<rowOffset, colOffset, numIncludes>>
translatorVars == <<tIn, tOut, tDone>>
batchVars == <<closed, adapterClosed, closeRet, bpc, filesKeys, bucket, copied>>

(***************************************************************************)
(* Errors.  class is what errors.Is tells about the error (out-of-memory,  *)
(* load-required, neither), js whether errors.As finds a jsError in it.    *)
(* A stack is the sequence of the lines of jsError.stack; the empty        *)
(* sequence is the empty string.                                           *)
(***************************************************************************)
NoErr == [class |-> "nil", js |-> FALSE, message |-> "", stack |-> <<>>]
ErrOutOfMemory == [class |-> "oom", js |-> FALSE, message |-> "out of memory", stack |-> <<>>]
errLoadRequired == [class |-> "loadreq", js |-> FALSE, message |-> "load required", stack |-> <<>>]
errOpaque == [class |-> "other", js |-> FALSE, message |-> "broken pipe", stack |-> <<>>]

jsError(message, stack) == [class |-> "other", js |-> TRUE, message |-> message, stack |-> stack]

\* a line that is a frame "at fn (src:row:col)", and a line of plain text
Frame(fn, src, row, col) == [k |-> "frame", fn |-> fn, src |-> src, row |-> row, col |-> col]
Text(s) == [k |-> "text", s |-> s]
\* a frame as fmt.Sprintf(`  at %s (%d:%d)`, ...) prints it: no source label
UserFrame(fn, row, col) == [k |-> "userframe", fn |-> fn, row |-> row, col |-> col]

(***************************************************************************)
(* Stack translator: Script.rewriteJavaScriptStack.                        *)
(***************************************************************************)
\* vmStackTraceLine.FindStringSubmatch(line) finds a match
vmStackTraceLine(line) == line.k = "frame" /\ line.src = "vm.js"

functionName(fn) == IF fn = "module.exports" THEN "main" ELSE fn

correctedRow(row, rowOff, nIncl) == row - (rowOff + 1 + nIncl)

correctedColumn_everyRow(row, column, colOff) == column - colOff
\* lines 125-128
correctedColumn(row, column, colOff) == IF row = 1 THEN column - colOff ELSE column

abandon_never(row) == FALSE
\* the test that makes the loop give the original error back
abandon(row) == row < 0

\* the loop over lines[i..]; acc holds the frames translated so far
RECURSIVE translateLines(_, _, _, _, _, _)
translateLines(lines, i, rowOff, nIncl, colOff, acc) ==
    IF i > Len(lines) THEN [ok |-> TRUE, stack |-> acc]
    ELSE IF i = 1 \/ ~vmStackTraceLine(lines[i])
         THEN translateLines(lines, i + 1, rowOff, nIncl, colOff, acc)
         ELSE LET row == correctedRow(lines[i].row, rowOff, nIncl)
              IN  IF abandon(row) THEN [ok |-> FALSE, stack |-> <<>>]
                  ELSE translateLines(lines, i + 1, rowOff, nIncl, colOff,
                           Append(acc, UserFrame(functionName(lines[i].fn), row,
                                       correctedColumn(row, lines[i].col, colOff))))

\* strings.Trim(message + "\n" + strings.Join(stack, "\n"), "\n") as lines
joinTrim(message, stack) == (IF message = "" THEN <<>> ELSE <<Text(message)>>) \o stack

\* the same without lines 98-100
rewriteJavaScriptStack_noEmptyCheck(err, rowOff, nIncl, colOff) ==
    IF ~err.js THEN err
    ELSE LET t == translateLines(err.stack, 1, rowOff, nIncl, colOff, <<>>)
         IN  IF ~t.ok THEN err
             ELSE [err EXCEPT !.stack = joinTrim(err.message, t.stack)]
\* lines 92-135; the jsError found in err comes back with a new stack
rewriteJavaScriptStack(err, rowOff, nIncl, colOff) ==
    IF ~err.js THEN err
    ELSE IF err.stack = <<>> THEN err
    ELSE LET t == translateLines(err.stack, 1, rowOff, nIncl, colOff, <<>>)
         IN  IF ~t.ok THEN err
             ELSE [err EXCEPT !.stack = joinTrim(err.message, t.stack)]

(***************************************************************************)
(* Payloads.                                                               *)
(***************************************************************************)
SessionId == "s1"
Session == [type |-> "Session", session |-> SessionId]
InitPayload == [type |-> "Init", session |-> SessionId, includes |-> numIncludes]
ExecutePayload(name, args) ==
    [type |-> "Execute", session |-> SessionId, function |-> name, args |-> args]

args_asGiven(args) == args
\* Execute: a nil argument list becomes an empty one
nonNilArgs(args) == IF args.isNil THEN List(<<>>) ELSE args

(***************************************************************************)
(* The transport.  Every exchange is answered by one of these errors.      *)
(***************************************************************************)
translatableStack == <<Text("Error: boom"), Frame("module.exports", "vm.js", 4, 15)>>
wrapperStack == <<Text("Error: boom"), Frame("f", "vm.js", 4, 15), Frame("g", "vm.js", 0, 1)>>

\* an error for which errors.Is(err, ipc.ErrOutOfMemory) and errors.As(err,
\* &jsErr) both hold: the runtime ran out of memory inside the script
oomWithStack == [class |-> "oom", js |-> TRUE, message |-> "out of memory",
                 stack |-> translatableStack]

Responses == {NoErr, ErrOutOfMemory, errLoadRequired, errOpaque,
              jsError("boom", <<>>), jsError("boom", translatableStack),
              jsError("boom", wrapperStack), oomWithStack}

\* the log of the exchanges of the current operation
Exchanged(cmd, pl, via, err) == [command |-> cmd, payload |-> pl, via |-> via, class |-> err.class]
record(log, e) == IF Len(log) < MaxSent THEN Append(log, e) ELSE log

NoRet == [status |-> "none", err |-> NoErr]
Ok == [status |-> "ok", err |-> NoErr]
Failed(err) == [status |-> "err", err |-> err]

translated(err) == rewriteJavaScriptStack(err, rowOffset, numIncludes, colOffset)

(***************************************************************************)
(* Script.exchange, lines 65-90.                                           *)
(***************************************************************************)
ceilingReached_off(n) == n > maxScriptErrors
\* line 69: s.errCount >= maxScriptErrors
ceilingReached(n) == n >= maxScriptErrors

counted_loadRequired(class, n) == IF class = "oom" \/ class = "loadreq" THEN n + 1 ELSE n
\* lines 67-68: an out-of-memory answer is counted
counted(class, n) == IF class = "oom" THEN n + 1 ELSE n

errCountAfter_keep(class, n) == n
errCountAfter_forget(class, n) ==
    IF class = "oom" THEN (IF ceilingReached(n) THEN 0 ELSE n)
    ELSE IF class = "loadreq" THEN n
    ELSE 0
\* lines 78 and 87: the counter, already counted, after the answer is handled
errCountAfter(class, n) ==
    IF class = "oom" \/ class = "loadreq" THEN n ELSE 0

afterExchange_noLoad(class, n) ==
    IF class = "oom" /\ ~ceilingReached(n) THEN "exchange" ELSE "idle"
afterExchange_reloadOnOom(class, n) ==
    IF class = "oom" THEN (IF ceilingReached(n) THEN "idle" ELSE "load")
    ELSE IF class = "loadreq" THEN "load"
    ELSE "idle"
\* lines 67-89: where the call goes after an answer to the requested command;
\* n is the counter after counting
afterExchange(class, n) ==
    IF class = "oom" THEN (IF ceilingReached(n) THEN "idle" ELSE "exchange")
    ELSE IF class = "nil" THEN "idle"
    ELSE IF class = "loadreq" THEN "load"
    ELSE "idle"

returned_raw(err) == IF err.class = "nil" THEN Ok ELSE Failed(err)
\* lines 70, 79 and 88: what a returning call hands to its caller
returned(err) ==
    IF err.class = "oom" THEN Failed(err)
    ELSE IF err.class = "nil" THEN Ok
    ELSE Failed(translated(err))

\* out-of-memory answers among the exchanges of a log
oomCount(log) == Cardinality({i \in 1..Len(log) : log[i].class = "oom"})

\* history: the out-of-memory answers of the last Describe/Execute that
\* returned, if it returned success, else -1
lastCallOom ==
    IF op = "close" \/ op = "none" THEN prevOom
    ELSE IF ret.status = "ok" THEN oomCount(sent) ELSE -1

\* the caller starts an operation
begin(o, cmd, pl, given) ==
    /\ op' = o
    /\ command' = cmd
    /\ payload' = pl
    /\ callArgs' = given
    /\ pc' = "exchange"
    /\ ret' = NoRet
    /\ sent' = <<>>
    /\ dropped' = FALSE
    /\ lastErr' = NoErr
    /\ startErr' = errCount
    /\ prevOom' = lastCallOom
    /\ UNCHANGED <<errCount, ceilingHit>>
    /\ UNCHANGED offsetVars
    /\ UNCHANGED translatorVars
    /\ UNCHANGED batchVars

Describe ==
    /\ pc = "idle"
    /\ begin(describe, describe, Session, Nil)

ArgLists == {Nil, List(<<>>), List(<<1>>)}
FunctionNames == {"", "transform"}

Execute ==
    /\ pc = "idle"
    /\ \E name \in FunctionNames, args \in ArgLists :
        begin(execute, execute, ExecutePayload(name, nonNilArgs(args)), args)

\* line 66 and what follows the answer err
exchange ==
    /\ pc = "exchange"
    /\ \E err \in Responses :
        /\ err.class = "oom" => errCount < MaxErrCount
        /\ sent' = record(sent, Exchanged(command, payload, "exchange", err))
        /\ dropped' = (dropped \/ Len(sent) >= MaxSent)
        /\ lastErr' = err
        /\ LET n == counted(err.class, errCount)
           IN  /\ errCount' = errCountAfter(err.class, n)
               /\ pc' = afterExchange(err.class, n)
        /\ ret' = IF pc' = "idle" THEN returned(err) ELSE ret
        /\ ceilingHit' = IF err.class = "oom" THEN (ceilingHit \/ pc' = "idle")
                         ELSE IF err.class = "loadreq" THEN ceilingHit
                         ELSE FALSE
    /\ UNCHANGED <<command, payload, op, callArgs, startErr, prevOom>>
    /\ UNCHANGED offsetVars
    /\ UNCHANGED translatorVars
    /\ UNCHANGED batchVars

afterLoad_retry(err) == "exchange"
afterLoad_recover(err) ==
    IF err.class = "nil" THEN "exchange"
    ELSE IF err.class = "oom" \/ err.class = "loadreq" THEN "load"
    ELSE "idle"
\* lines 81-85: where the call goes after the answer to load
afterLoad(err) == IF err.class # "nil" THEN "idle" ELSE "exchange"

\* line 81 and what follows the answer err
exchangeLoad ==
    /\ pc = "load"
    /\ \E err \in Responses :
        /\ sent' = record(sent, Exchanged(load, InitPayload, "exchange", err))
        /\ dropped' = (dropped \/ Len(sent) >= MaxSent)
        /\ lastErr' = err
        /\ pc' = afterLoad(err)
        /\ ret' = IF pc' = "idle" THEN Failed(translated(err)) ELSE ret
    /\ UNCHANGED <<errCount, command, payload, op, callArgs, startErr, prevOom, ceilingHit>>
    /\ UNCHANGED offsetVars
    /\ UNCHANGED translatorVars
    /\ UNCHANGED batchVars

(***************************************************************************)
(* Script.Close, lines 59-61.                                              *)
(***************************************************************************)
closeResult_propagate(err) == IF err.class = "nil" THEN NoRet ELSE Failed(err)
\* `_ =`: the error of the exchange is dropped
closeResult(err) == NoRet

Close ==
    /\ pc = "idle"
    /\ \E err \in Responses :
        /\ sent' = <<Exchanged(unload, Session, "direct", err)>>
        /\ lastErr' = err
        /\ ret' = IF closeResult(err) = NoRet THEN ret ELSE closeResult(err)
    /\ op' = "close"
    /\ dropped' = FALSE
    /\ prevOom' = lastCallOom
    /\ UNCHANGED <<errCount, pc, command, payload, callArgs, startErr, ceilingHit>>
    /\ UNCHANGED offsetVars
    /\ UNCHANGED translatorVars
    /\ UNCHANGED batchVars

(***************************************************************************)
(* Specifications.                                                         *)
(***************************************************************************)
RowOffsets == {0, 2}
ColOffsets == {0, 10}
IncludeCounts == {0, 1}

ScriptInit ==
    /\ errCount = 0
    /\ pc = "idle"
    /\ command = "none"
    /\ payload = Session
    /\ ret = NoRet
    /\ sent = <<>>
    /\ dropped = FALSE
    /\ lastErr = NoErr
    /\ op = "none"
    /\ callArgs = Nil
    /\ startErr = 0
    /\ prevOom = -1
    /\ ceilingHit = FALSE

\* NewAwsRedshift with streamMode false: startBatch has started the goroutine
BatchInit ==
    /\ closed = FALSE
    /\ adapterClosed = FALSE
    /\ closeRet = "none"
    /\ bpc = "check"
    /\ filesKeys = <<>>
    /\ bucket = {}
    /\ copied = {}

Init ==
    /\ ScriptInit
    /\ BatchInit
    /\ rowOffset = 2
    /\ colOffset = 10
    /\ numIncludes \in IncludeCounts
    /\ tIn = NoErr
    /\ tOut = NoErr
    /\ tDone = FALSE

Next == Describe \/ Execute \/ exchange \/ exchangeLoad \/ Close

Spec == Init /\ [][Next]_vars

\* every exchange that was sent is answered
FairSpec == Spec /\ WF_vars(exchange) /\ WF_vars(exchangeLoad)

(***************************************************************************)
(* The stack translator applied to every error of a bounded set.           *)
(***************************************************************************)
Rows == 0..MaxRow
RawLines == {Text("Error: boom"), Frame("load", "internal/loader.js", 1, 1)}
            \cup {Frame(fn, "vm.js", row, 15) : fn \in {"module.exports", "f"}, row \in Rows}

\* the raw stacks of n lines
RawStacksOfLen(n) == [1..n -> RawLines]

Messages == {"", "boom"}

TranslatorInit ==
    /\ ScriptInit
    /\ BatchInit
    /\ rowOffset \in RowOffsets
    /\ colOffset \in ColOffsets
    /\ numIncludes \in IncludeCounts
    /\ \/ tIn \in {NoErr, ErrOutOfMemory, errLoadRequired, errOpaque}
       \/ \E m \in Messages, n \in 0..MaxStack :
             \E s \in RawStacksOfLen(n) : tIn = jsError(m, s)
    /\ tOut = NoErr
    /\ tDone = FALSE

Translate ==
    /\ ~tDone
    /\ tOut' = translated(tIn)
    /\ tDone' = TRUE
    /\ UNCHANGED tIn
    /\ UNCHANGED scriptVars
    /\ UNCHANGED offsetVars
    /\ UNCHANGED batchVars

TranslatorSpec == TranslatorInit /\ [][Translate]_vars

(***************************************************************************)
(* storages.AwsRedshift in batch mode (src/storages/redshift.go): Store     *)
(* uploads files to S3, the goroutine of startBatch copies them to         *)
(* Redshift, Close sets the closed flag.  A step of the goroutine is one   *)
(* call of an adapter (S3 or Redshift) with the code up to the next call;  *)
(* the outcome of the call is the input of the step.                       *)
(***************************************************************************)
\* S3 keys: fileName + tableFileKeyDelimiter + table name; parts is what
\* strings.Split(fileKey, tableFileKeyDelimiter) finds
FileKeys == {[file |-> "a", parts |-> 2], [file |-> "b", parts |-> 2],
             [file |-> "c-table-d", parts |-> 3]}

\* the orders in which ListBucket can list a set of keys
Listings(keys) ==
    {q \in [1..Cardinality(keys) -> keys] :
        \A i, j \in 1..Cardinality(keys) : i # j => q[i] # q[j]}

\* the range loop: on to the next key, or back to the top of the for loop
nextFile(rest) == IF rest = <<>> THEN "check" ELSE "open"

otherVars == <<scriptVars, offsetVars, translatorVars>>

\* Store, lines 143-167, one file: UploadBytes puts the key in the bucket
Store ==
    /\ \E k \in FileKeys : bucket' = bucket \cup {k}
    /\ UNCHANGED <<closed, adapterClosed, closeRet, bpc, filesKeys, copied>>
    /\ UNCHANGED otherVars

\* lines 84-86: the goroutine reads ar.closed, which Close writes with no
\* synchronisation: the read may still give false after Close
batchCheck ==
    /\ bpc = "check"
    /\ \E seen \in (IF closed THEN {TRUE, FALSE} ELSE {FALSE}) :
          bpc' = IF seen THEN "exit" ELSE "sleep"
    /\ UNCHANGED <<closed, adapterClosed, closeRet, filesKeys, bucket, copied>>
    /\ UNCHANGED otherVars

\* lines 88-98: the sleep ends and ListBucket is called
batchList ==
    /\ bpc = "sleep"
    /\ \/ /\ bpc' = "check"
          /\ filesKeys' = <<>>
       \/ \E q \in Listings(bucket) :
             /\ filesKeys' = q
             /\ bpc' = nextFile(q)
    /\ UNCHANGED <<closed, adapterClosed, closeRet, bucket, copied>>
    /\ UNCHANGED otherVars

\* lines 100-110: the next key; a key of the wrong format is skipped, else
\* OpenTx is called and may fail
batchOpenTx ==
    /\ bpc = "open"
    /\ \/ /\ filesKeys[1].parts # 2
          /\ filesKeys' = Tail(filesKeys)
          /\ bpc' = nextFile(filesKeys')
       \/ /\ filesKeys[1].parts = 2
          /\ \/ /\ filesKeys' = Tail(filesKeys)
                /\ bpc' = nextFile(filesKeys')
             \/ /\ filesKeys' = filesKeys
                /\ bpc' = "copy"
    /\ UNCHANGED <<closed, adapterClosed, closeRet, bucket, copied>>
    /\ UNCHANGED otherVars

\* lines 112-118: Copy, then Rollback (Copy failed) or Commit
batchCopy ==
    /\ bpc = "copy"
    /\ \/ /\ filesKeys' = Tail(filesKeys)
          /\ bpc' = nextFile(filesKeys')
          /\ copied' = copied
       \/ /\ copied' = copied \cup {filesKeys[1]}
          /\ filesKeys' = filesKeys
          /\ bpc' = "delete"
    /\ UNCHANGED <<closed, adapterClosed, closeRet, bucket>>
    /\ UNCHANGED otherVars

\* lines 121-124: DeleteObject, which may fail
batchDelete ==
    /\ bpc = "delete"
    /\ bucket' \in {bucket, bucket \ {filesKeys[1]}}
    /\ filesKeys' = Tail(filesKeys)
    /\ bpc' = nextFile(filesKeys')
    /\ UNCHANGED <<closed, adapterClosed, closeRet, copied>>
    /\ UNCHANGED otherVars

\* AwsRedshift.Close, lines 182-194, with streamingWorker nil
RedshiftClose ==
    /\ closed' = TRUE
    /\ adapterClosed' = TRUE
    /\ closeRet' \in {"nil", "err"}
    /\ UNCHANGED <<bpc, filesKeys, bucket, copied>>
    /\ UNCHANGED otherVars

BatchNext ==
    \/ Store
    \/ batchCheck
    \/ batchList
    \/ batchOpenTx
    \/ batchCopy
    \/ batchDelete
    \/ RedshiftClose

BatchSpec == Init /\ [][BatchNext]_vars

(***************************************************************************)
(* Properties.                                                             *)
(***************************************************************************)
isCall == op = describe \/ op = execute
AllOOM(log) == \A i \in 1..Len(log) : log[i].class = "oom"

\* C1 (retry ceiling): a Describe or Execute that starts with the failure
\* counter at 0 and is answered out-of-memory every time performs exactly 3
\* exchanges, each of the requested command with the same payload, never a
\* load, and then returns the out-of-memory error.
C1_RetryCeiling ==
    (isCall /\ startErr = 0 /\ ~dropped /\ AllOOM(sent)) =>
        /\ Len(sent) <= 3
        /\ \A i \in 1..Len(sent) :
              /\ sent[i].command = op
              /\ sent[i].payload = payload
              /\ sent[i].via = "exchange"
        /\ pc = (IF Len(sent) = 3 THEN "idle" ELSE "exchange")
        /\ pc = "idle" => (ret = Failed(lastErr) /\ lastErr.class = "oom")

C1_Witness ==
    /\ op = execute /\ startErr = 0 /\ pc = "idle"
    /\ Len(sent) = 3 /\ AllOOM(sent)
    /\ ret.status = "err" /\ ret.err.class = "oom"

\* C2 (reset on success): when a Describe or Execute has returned success the
\* failure counter is 0, whatever number of out-of-memory answers came before
\* the success; and the call that follows a successful one, when it is
\* answered out-of-memory only, again performs exactly 3 exchanges.
C2_ResetOnSuccess ==
    /\ (isCall /\ pc = "idle" /\ ret.status = "ok") => errCount = 0
    /\ (isCall /\ prevOom >= 0 /\ ~dropped /\ AllOOM(sent)) =>
          /\ Len(sent) <= 3
          /\ pc = (IF Len(sent) = 3 THEN "idle" ELSE "exchange")
          /\ pc = "idle" => ret.status = "err" /\ ret.err.class = "oom"

\* the call after a success that had seen 2 out-of-memory answers
C2_Witness ==
    /\ isCall /\ prevOom = 2 /\ pc = "idle"
    /\ Len(sent) = 3 /\ AllOOM(sent)
    /\ ret.status = "err"

\* C3 (lazy load): an Execute on a fresh handle whose first execute is
\* answered load-required sends a load next; when that load succeeds it sends
\* the same execute again; and when that one succeeds the call returns
\* success after exactly the exchanges execute, load, execute.
C3_LazyLoad ==
    (op = execute /\ startErr = 0 /\ Len(sent) >= 1 /\ sent[1].class = "loadreq") =>
        /\ sent[1].command = execute
        /\ Len(sent) = 1 => pc = "load"
        /\ Len(sent) >= 2 => sent[2].command = load
        /\ (Len(sent) = 2 /\ sent[2].class = "nil") => pc = "exchange"
        /\ (Len(sent) >= 3 /\ sent[2].class = "nil") =>
              /\ sent[3].command = execute
              /\ sent[3].payload = sent[1].payload
        /\ (Len(sent) >= 3 /\ sent[2].class = "nil" /\ sent[3].class = "nil") =>
              /\ Len(sent) = 3
              /\ ~dropped
              /\ pc = "idle"
              /\ ret = Ok

C3_Witness ==
    /\ op = execute /\ startErr = 0 /\ pc = "idle" /\ ret = Ok
    /\ Len(sent) = 3
    /\ sent[1].command = execute /\ sent[1].class = "loadreq"
    /\ sent[2].command = load /\ sent[2].class = "nil"
    /\ sent[3].command = execute /\ sent[3].class = "nil"

\* C4 (load failure surfaces directly): when the load sent after a
\* load-required answer fails, the call returns with that exchange, handing
\* the caller the load's error (passed through the stack translator), and
\* the failure counter is what it was before the load.
C4_LoadFailure ==
    [][(pc = "load" /\ lastErr'.class # "nil") =>
          /\ pc' = "idle"
          /\ ret' = Failed(rewriteJavaScriptStack(lastErr', rowOffset, numIncludes, colOffset))
          /\ ret'.err.class = lastErr'.class
          /\ ret'.err.message = lastErr'.message
          /\ errCount' = errCount]_vars

\* a call that ended on a failed load with 2 out-of-memory answers counted
C4_Witness ==
    /\ isCall /\ pc = "idle" /\ ~dropped
    /\ Len(sent) = 4
    /\ sent[4].command = load /\ sent[4].class = "other"
    /\ oomCount(sent) = 2
    /\ ret.status = "err" /\ ret.err = errOpaque
    /\ errCount = 2

\* C5 (Close never fails the caller): whatever the transport answers to
\* unload, a Close is one unload exchange sent through exchangeDirect, with
\* the Session as payload; nothing is handed to the caller, no load and no
\* retry follow, and the failure counter is left as it was.  Close can be
\* called again with the same effect.
C5_CloseNeverFails ==
    [][(op' = "close") =>
          /\ pc' = "idle"
          /\ ret' = ret
          /\ errCount' = errCount
          /\ sent' = <<[command |-> unload, payload |-> Session, via |-> "direct",
                        class |-> lastErr'.class]>>]_vars

\* a Close answered load-required (the session is gone), counter still at 2
C5_Witness ==
    /\ op = "close" /\ pc = "idle"
    /\ lastErr = errLoadRequired
    /\ errCount = 2
    /\ Len(sent) = 1 /\ sent[1].command = unload
C7_CounterBound == errCount >= 0 /\ errCount <= 3

\* C8 (termination): every Describe/Execute call that was started returns,
\* given that every exchange is answered.
C8_Termination == (pc # "idle") ~> (pc = "idle")

\* C9 (args never null): every execute exchange of an Execute call, retries
\* after out-of-memory and after a reload included, carries an argument list
\* that is not nil: the empty list when the caller gave nil, the caller's
\* list otherwise.
C9_ArgsNeverNull ==
    \A i \in 1..Len(sent) :
        sent[i].command = execute =>
            /\ sent[i].payload.type = "Execute"
            /\ ~sent[i].payload.args.isNil
            /\ sent[i].payload.args = (IF callArgs = Nil THEN List(<<>>) ELSE callArgs)

\* Execute(nil args): execute, out-of-memory; execute, load-required; load;
\* execute
C9_Witness ==
    /\ op = execute /\ callArgs = Nil /\ Len(sent) = 4
    /\ sent[1].command = execute /\ sent[1].class = "oom"
    /\ sent[2].command = execute /\ sent[2].class = "loadreq"
    /\ sent[3].command = load /\ sent[3].class = "nil"
    /\ sent[4].command = execute /\ sent[4].payload.args = List(<<>>)

\* the lines after the first one that match the frame pattern
matchingLines(err) == {i \in 2..Len(err.stack) : vmStackTraceLine(err.stack[i])}
rowInUserText(err, i) == err.stack[i].row - (rowOffset + 1 + numIncludes)

\* C10 (negative-row abandonment): when a frame of the stack (a line after
\* the discarded first line that matches the pattern) has a corrected row
\* below 0, the translation gives back exactly the error it was given, also
\* when earlier frames have corrected rows >= 0; an error that comes back
\* changed holds every frame of the stack, never a part of them.
C10_NegativeRow ==
    (tDone /\ tIn.js) =>
        /\ (\E i \in matchingLines(tIn) : rowInUserText(tIn, i) < 0) => tOut = tIn
        /\ tOut # tIn =>
              Cardinality({j \in 1..Len(tOut.stack) : tOut.stack[j].k = "userframe"})
                  = Cardinality(matchingLines(tIn))

\* a frame in user text followed by a frame in the wrapper
C10_Witness ==
    /\ tDone /\ tIn.js /\ Len(tIn.stack) = 3
    /\ 2 \in matchingLines(tIn) /\ rowInUserText(tIn, 2) >= 1
    /\ 3 \in matchingLines(tIn) /\ rowInUserText(tIn, 3) < 0
    /\ tOut = tIn
\* C11 (no-stack passthrough): the translation gives back unchanged an error
\* that holds no jsError, and a jsError whose stack is the empty string.
C11_NoStackPassthrough ==
    (tDone /\ (~tIn.js \/ tIn.stack = <<>>)) => tOut = tIn

\* a script error with a message and no stack
C11_Witness ==
    /\ tDone /\ tIn.js /\ tIn.stack = <<>> /\ tIn.message = "boom"
    /\ tOut = tIn
\* the lines of a stack that are frames, in either notation
frameLines(stack) == {j \in 1..Len(stack) : stack[j].k = "frame" \/ stack[j].k = "userframe"}

\* C12 (user coordinates only): in the stack of every error that Describe or
\* Execute returns, each frame is a frame of the user's executable: written
\* in the translated notation, with a row >= 1.
C12_UserCoordinates ==
    (isCall /\ pc = "idle" /\ ret.status = "err") =>
        \A j \in frameLines(ret.err.stack) :
            /\ ret.err.stack[j].k = "userframe"
            /\ ret.err.stack[j].row >= 1

\* C13 (out-of-memory at the ceiling is translated): the out-of-memory error
\* a call returns when the counter reaches the maximum is the answer of the
\* transport passed through the stack translator.
C13_CeilingTranslated ==
    (isCall /\ pc = "idle" /\ ret.status = "err" /\ lastErr.class = "oom") =>
        ret.err = rewriteJavaScriptStack(lastErr, rowOffset, numIncludes, colOffset)

\* C14 (non-retryable error): an answer to the requested command that is an
\* error other than out-of-memory and load-required ends the call with this
\* exchange: the counter is set to 0 and the caller gets the error passed
\* through the stack translator.
C14_NonRetryable ==
    [][(pc = "exchange" /\ lastErr'.class = "other") =>
          /\ pc' = "idle"
          /\ Len(sent') = Len(sent) + 1 \/ dropped'
          /\ errCount' = 0
          /\ ret' = Failed(rewriteJavaScriptStack(lastErr', rowOffset, numIncludes, colOffset))]_vars

\* two out-of-memory answers, then a script error whose stack is translated
C14_Witness ==
    /\ isCall /\ pc = "idle" /\ Len(sent) = 3
    /\ sent[1].class = "oom" /\ sent[2].class = "oom" /\ sent[3].class = "other"
    /\ lastErr = jsError("boom", translatableStack)
    /\ ret.status = "err" /\ ret.err # lastErr
    /\ ret.err.stack[1] = Text("boom")
    /\ errCount = 0
\* the last exchange of the current operation, when the log holds it
lastSent == sent[Len(sent)]

\* C15 (every successful exchange resets the counter): in the state that
\* follows an exchange of a Describe/Execute call that succeeded, a load
\* included, the failure counter is 0.
C15_SuccessResets ==
    (isCall /\ ~dropped /\ Len(sent) >= 1 /\ lastSent.class = "nil") => errCount = 0

\* C16 (load-required is not counted): neither the load-required answer nor
\* the load that follows it, successful or failed, changes the failure
\* counter; the command is retried with the counter it had before the
\* load-required answer.
C16_LoadRequiredNotCounted ==
    [][/\ (pc = "exchange" /\ lastErr'.class = "loadreq") =>
              (errCount' = errCount /\ pc' = "load")
       /\ (pc = "load") => errCount' = errCount]_vars

\* out-of-memory twice, load-required, load: the command is about to be
\* retried with the counter at 2
C16_Witness ==
    /\ isCall /\ pc = "exchange" /\ Len(sent) = 4
    /\ sent[1].class = "oom" /\ sent[2].class = "oom"
    /\ sent[3].class = "loadreq"
    /\ sent[4].command = load /\ sent[4].class = "nil"
    /\ errCount = 2

\* C17 (load only on load-required): a load is sent only right after a
\* load-required answer to the requested command and carries the Init of the
\* handle; the first exchange of a call is the requested command; every
\* exchange that is not a load is the requested command with its payload.
C17_LoadOnlyOnLoadRequired ==
    isCall =>
        \A i \in 1..Len(sent) :
            /\ sent[i].via = "exchange"
            /\ i = 1 => sent[i].command = op
            /\ sent[i].command = load =>
                  /\ i > 1
                  /\ sent[i - 1].command = op
                  /\ sent[i - 1].class = "loadreq"
                  /\ sent[i].payload = InitPayload
            /\ sent[i].command # load =>
                  /\ sent[i].command = op
                  /\ sent[i].payload = payload
            /\ (i > 1 /\ sent[i - 1].class \in {"oom", "nil", "other"}) =>
                  sent[i].command # load

\* out-of-memory, then load-required, then the load
C17_Witness ==
    /\ op = execute /\ Len(sent) >= 3
    /\ sent[1].class = "oom"
    /\ sent[2].command = execute /\ sent[2].class = "loadreq"
    /\ sent[3].command = load /\ sent[3].payload = InitPayload

\* C18 (no recovery inside a load): a load answered load-required or
\* out-of-memory ends the call with this one exchange: the caller gets that
\* error, no load and no retry of the command follow, and the failure counter
\* is not changed.
C18_NoRecoveryInLoad ==
    [][(pc = "load" /\ lastErr'.class \in {"loadreq", "oom"}) =>
          /\ pc' = "idle"
          /\ ret'.status = "err"
          /\ ret'.err.class = lastErr'.class
          /\ ret'.err.message = lastErr'.message
          /\ sent' = record(sent, [command |-> load, payload |-> InitPayload,
                                    via |-> "exchange", class |-> lastErr'.class])
          /\ errCount' = errCount]_vars

\* a load answered out-of-memory with the counter at 2: the call is over and
\* the counter still 2
C18_Witness ==
    /\ isCall /\ pc = "idle" /\ ~dropped /\ Len(sent) = 4
    /\ sent[3].class = "loadreq"
    /\ sent[4].command = load /\ sent[4].class = "oom"
    /\ ret = Failed(ErrOutOfMemory)
    /\ errCount = 2
\* the frames the claim expects for the lines i.. of a raw stack: each
\* matching line after the first, in order, renamed and moved by the offsets
RECURSIVE expectedFrames(_, _)
expectedFrames(lines, i) ==
    IF i > Len(lines) THEN <<>>
    ELSE IF i >= 2 /\ lines[i].k = "frame" /\ lines[i].src = "vm.js"
         THEN LET row == lines[i].row - (rowOffset + 1 + numIncludes)
              IN  <<[k |-> "userframe",
                     fn |-> IF lines[i].fn = "module.exports" THEN "main" ELSE lines[i].fn,
                     row |-> row,
                     col |-> IF row = 1 THEN lines[i].col - colOffset ELSE lines[i].col]>>
                  \o expectedFrames(lines, i + 1)
         ELSE expectedFrames(lines, i + 1)

\* C19 (stack translation arithmetic): for a script error with a stack whose
\* frames all have corrected row >= 0, the frames of the translated stack are
\* the matching lines after the first, in their order, with module.exports
\* renamed main, row = rawRow - (rowOffset + 1 + numIncludes), and column =
\* rawColumn - colOffset on row 1 and rawColumn elsewhere; no other line of
\* the raw stack is kept.
C19_TranslationArithmetic ==
    (/\ tDone /\ tIn.js /\ tIn.stack # <<>>
     /\ \A i \in matchingLines(tIn) : rowInUserText(tIn, i) >= 0) =>
        /\ SelectSeq(tOut.stack, LAMBDA l : l.k = "userframe") = expectedFrames(tIn.stack, 1)
        /\ \A j \in 1..Len(tOut.stack) :
              tOut.stack[j].k # "userframe" => (j = 1 /\ tOut.stack[j] = Text(tIn.message))
        /\ tOut.message = tIn.message

\* rowOffset=2, no includes, colOffset=10: "at module.exports (vm.js:5:15)"
\* becomes "at main (2:15)", and a frame on row 1 has its column moved
C19_Witness ==
    /\ tDone /\ rowOffset = 2 /\ numIncludes = 0 /\ colOffset = 10
    /\ tIn = jsError("boom", <<Frame("f", "vm.js", 1, 15),
                               Frame("module.exports", "vm.js", 5, 15),
                               Frame("f", "vm.js", 4, 15)>>)
    /\ tOut.stack = <<Text("boom"), UserFrame("main", 2, 15), UserFrame("f", 1, 5)>>
\* C20 (the batch loader stops on Close): once Close has set the closed
\* flag, the goroutine of startBatch begins no further round: it makes no
\* ListBucket call.
C20_BatchStopsOnClose ==
    [][closed => ~(bpc = "sleep" /\ bpc' # "sleep")]_vars

====
